---- MODULE Spec2Model ----
(***************************************************************************)
(* A model of todotxt_machine/cli.py: the command line entry point of      *)
(* todotxt-machine.  main() selects and validates the todo and archive     *)
(* paths, loads the task list, starts a watchdog observer whose handler    *)
(* (AutoLoad.on_modified) reloads the task list when the todo file changes,*)
(* runs the urwid UI loop, and on return stops the observer, saves and     *)
(* exits.                                                                  *)
(*                                                                         *)
(* Python values are records [type, val]; val is a sequence of one         *)
(* character strings (the text of a str, <<>> for None, <<"1">> / <<>> for *)
(* True / False).  An option written without a value in the config file    *)
(* reads as None under Python 2 and as '' under Python 3; both are values  *)
(* of the model.  The task list's own code (Todos, UrwidUI) is not part of *)
(* cli.py: an edit command is modelled as the steps of the documented      *)
(* EditEngine.apply, a reload as the replacement of the list by the file's *)
(* content, a save as the replacement of the file's content by the list.   *)
(***************************************************************************)
EXTENDS Naturals, Sequences, FiniteSets

VARIABLES
    arguments,          \* docopt's result: TODOFILE, DONEFILE, --show-default-bindings
    cfg,                \* the ConfigParser: section name -> dict of options
    fs,                 \* the file system: path -> "file" | "dir" | "missing"
    disk,               \* the content of the todo file on disk
    pc,                 \* the position of the main thread in main()
    stderr,             \* the last message exit_with_error wrote, or "none"
    enable_autosave,    \* the global enable_autosave
    todotxt_file,       \* main's local todotxt_file (before it is reopened)
    donetxt_file,       \* main's local donetxt_file
    todotxt_file_path,  \* main's local todotxt_file_path
    donetxt_file_path,  \* main's local donetxt_file_path
    todos,              \* the content of the in-memory task list (view.todos)
    view,               \* whether the global view is bound
    obsPc,              \* the position of the observer thread
    events,             \* modified-events queued in the observer, not yet dispatched
    stopReq,            \* observer.stop() has been called
    uiPc,               \* the position of the UI loop inside an edit command
    final_save,         \* the outcome of view.todos.save() at the end of main
    call                \* one call of get_boolean_config_option: option, default, result

vars == <<arguments, cfg, fs, disk, pc, stderr, enable_autosave, todotxt_file,
          donetxt_file, todotxt_file_path, donetxt_file_path, todos, view,
          obsPc, events, stopReq, uiPc, final_save, call>>

----------------------------------------------------------------------------
(* Bounds of the model *)

\* external edits of the todo file during one run
MaxExternal == 2
\* edit commands the user applies during one run
MaxEdits == 2
\* modified-events the observer's queue holds at once
MaxEvents == 2

----------------------------------------------------------------------------
(* Python values *)

Str(s) == [type |-> "str", val |-> s]
None == [type |-> "NoneType", val |-> <<>>]
PyTrue == [type |-> "bool", val |-> <<"1">>]
PyFalse == [type |-> "bool", val |-> <<>>]

\* Python's truth test: None, False and '' are false
Truthy(v) == v.val # <<>>

\* str(value)
PyStr(v) ==
    CASE v.type = "str" -> v.val
      [] v.type = "bool" -> IF v = PyTrue THEN <<"T", "r", "u", "e">>
                                          ELSE <<"F", "a", "l", "s", "e">>
      [] OTHER -> <<"N", "o", "n", "e">>

\* the upper-case letters and, at the same places, their lower-case forms
UpperLetters ==
    <<"A", "B", "C", "D", "E", "F", "G", "H", "I", "J", "K", "L", "M",
      "N", "O", "P", "Q", "R", "S", "T", "U", "V", "W", "X", "Y", "Z">>

LowerLetters ==
    <<"a", "b", "c", "d", "e", "f", "g", "h", "i", "j", "k", "l", "m",
      "n", "o", "p", "q", "r", "s", "t", "u", "v", "w", "x", "y", "z">>

\* str.lower() on one character: an upper-case letter becomes its lower-case
\* form, every other character stays
LowerChar(c) ==
    IF \E i \in DOMAIN UpperLetters : UpperLetters[i] = c
    THEN LowerLetters[CHOOSE i \in DOMAIN UpperLetters : UpperLetters[i] = c]
    ELSE c

Lower(s) == [i \in DOMAIN s |-> LowerChar(s[i])]

\* dict.get(key, default)
Get(d, key, default) == IF key \in DOMAIN d THEN d[key] ELSE default

----------------------------------------------------------------------------
(* get_boolean_config_option *)

get_boolean_config_option(c, section, option, default) ==
    LET value == Get(c[section], option, default)
    IN  IF /\ value.type # "bool"
           /\ \/ Lower(PyStr(value)) = <<"t", "r", "u", "e">>
              \/ Lower(PyStr(value)) = <<"1">>
        THEN PyTrue
        ELSE PyFalse

----------------------------------------------------------------------------
(* Paths and the file system *)

\* the working directory of the process
Cwd == <<"/", "w">>

\* os.path.realpath(os.path.expanduser(os.path.expandvars(filename))) for
\* names without variables, ~ or symbolic links: '' is the working directory,
\* a relative name is joined to it
RealPath(filename) ==
    IF filename = <<>> THEN Cwd
    ELSE IF Head(filename) = "/" THEN filename
    ELSE Cwd \o <<"/">> \o filename

LastSlash(p) ==
    LET S == {i \in DOMAIN p : p[i] = "/"}
    IN  IF S = {} THEN 0 ELSE CHOOSE i \in S : \A j \in S : j <= i

\* os.path.dirname
Dirname(p) ==
    LET i == LastSlash(p)
    IN  IF i <= 1 THEN SubSeq(p, 1, i) ELSE SubSeq(p, 1, i - 1)

NameT == <<"t">>
NameD == <<"d">>
NameN == <<"n">>
NameX == <<"m", "/", "x">>

\* /w holds a file t and a directory d; n, m and m/x do not exist
InitFs ==
    [p \in {<<"/">>, Cwd, RealPath(NameT), RealPath(NameD), RealPath(NameN),
            Dirname(RealPath(NameX)), RealPath(NameX)} |->
        CASE p \in {<<"/">>, Cwd, RealPath(NameD)} -> "dir"
          [] p = RealPath(NameT) -> "file"
          [] OTHER -> "missing"]

\* os.path.isdir, os.path.exists
IsDir(p) == p \in DOMAIN fs /\ fs[p] = "dir"
Exists(p) == p \in DOMAIN fs /\ fs[p] # "missing"

----------------------------------------------------------------------------
(* The task list's content: one mark per edit, "x" for a line an external  *)
(* program wrote, "u" for a line the user's edit command wrote             *)

NoTodos == <<"unbound">>
NoMessage == [error |-> "none", what |-> ""]
NoCall == [option |-> "", default |-> None, result |-> None, done |-> FALSE]

Count(s, c) == Cardinality({i \in DOMAIN s : s[i] = c})

----------------------------------------------------------------------------
(* exit_with_error, get_real_path *)

exit_with_error(error, what) ==
    /\ stderr' = [error |-> error, what |-> what]
    /\ pc' = "exit1"

\* get_real_path without the test of line 63
get_real_path_any(filename, description, nextPc) ==
    LET file_path == RealPath(filename.val)
    IN  \/ /\ ~Exists(file_path)
           /\ IsDir(Dirname(file_path))
           /\ \/ /\ fs' = [fs EXCEPT ![file_path] = "file"]
                 /\ pc' = nextPc
              \/ /\ pc' = "crashed"
                 /\ UNCHANGED fs
           /\ UNCHANGED stderr
        \/ /\ ~Exists(file_path)
           /\ ~IsDir(Dirname(file_path))
           /\ exit_with_error("directory does not exist", description)
           /\ UNCHANGED fs
        \/ /\ Exists(file_path)
           /\ pc' = nextPc
           /\ UNCHANGED <<fs, stderr>>

get_real_path(filename, description, nextPc) ==
    LET file_path == RealPath(filename.val)
    IN  \/ /\ IsDir(file_path)
           /\ exit_with_error("is a directory", description)
           /\ UNCHANGED fs
        \/ /\ ~IsDir(file_path) /\ ~Exists(file_path)
           /\ IsDir(Dirname(file_path))
           /\ \/ /\ fs' = [fs EXCEPT ![file_path] = "file"]
                 /\ pc' = nextPc
              \/ /\ pc' = "crashed"       \* open(file_path, 'a') raises
                 /\ UNCHANGED fs
           /\ UNCHANGED stderr
        \/ /\ ~IsDir(file_path) /\ ~Exists(file_path)
           /\ ~IsDir(Dirname(file_path))
           /\ exit_with_error("directory does not exist", description)
           /\ UNCHANGED fs
        \/ /\ ~IsDir(file_path) /\ Exists(file_path)
           /\ pc' = nextPc
           /\ UNCHANGED <<fs, stderr>>

----------------------------------------------------------------------------
(* main, up to the start of the observer *)

\* lines 100-121: --show-default-bindings, the config file, auto-save
ParseConfig ==
    /\ pc = "start"
    /\ \/ /\ Truthy(arguments["--show-default-bindings"])
          /\ pc' = "exit0_bindings"
          /\ UNCHANGED enable_autosave
       \/ /\ ~Truthy(arguments["--show-default-bindings"])
          /\ enable_autosave' =
                get_boolean_config_option(cfg, "settings", "auto-save", PyFalse)
          /\ pc' = "select"
    /\ UNCHANGED <<arguments, cfg, fs, disk, stderr, todotxt_file, donetxt_file,
                   todotxt_file_path, donetxt_file_path, todos, view, obsPc,
                   events, stopReq, uiPc, final_save, call>>

\* SelectFile without the override of lines 126-127 and 135-136
SelectFileConfigFirst(argument, option) ==
    Get(cfg["settings"], option, arguments[argument])

\* lines 125-127 and 134-136: the command line's file, or the config's
SelectFile(argument, option) ==
    IF Truthy(arguments[argument])
    THEN arguments[argument]
    ELSE Get(cfg["settings"], option, arguments[argument])

\* lines 123-136
SelectFiles ==
    /\ pc = "select"
    /\ todotxt_file' = SelectFile("TODOFILE", "file")
    /\ \/ /\ todotxt_file' = None
          /\ exit_with_error("no todo file specified", "")
          /\ UNCHANGED donetxt_file
       \/ /\ todotxt_file' # None
          /\ donetxt_file' = SelectFile("DONEFILE", "archive")
          /\ pc' = "resolve_todo"
          /\ UNCHANGED stderr
    /\ UNCHANGED <<arguments, cfg, fs, disk, enable_autosave,
                   todotxt_file_path, donetxt_file_path, todos, view, obsPc,
                   events, stopReq, uiPc, final_save, call>>

\* line 138
ResolveTodo ==
    /\ pc = "resolve_todo"
    /\ get_real_path(todotxt_file, "todo.txt", "resolve_done")
    /\ todotxt_file_path' = IF pc' = "resolve_done"
                            THEN Str(RealPath(todotxt_file.val))
                            ELSE todotxt_file_path
    /\ UNCHANGED <<arguments, cfg, disk, enable_autosave, todotxt_file,
                   donetxt_file, donetxt_file_path, todos, view, obsPc, events,
                   stopReq, uiPc, final_save, call>>

\* lines 140-143
ResolveDone ==
    /\ pc = "resolve_done"
    /\ \/ /\ donetxt_file # None
          /\ get_real_path(donetxt_file, "done.txt", "open")
          /\ donetxt_file_path' = IF pc' = "open"
                                  THEN Str(RealPath(donetxt_file.val))
                                  ELSE donetxt_file_path
       \/ /\ donetxt_file = None
          /\ donetxt_file_path' = None
          /\ pc' = "open"
          /\ UNCHANGED <<fs, stderr>>
    /\ UNCHANGED <<arguments, cfg, disk, enable_autosave, todotxt_file,
                   donetxt_file, todotxt_file_path, todos, view, obsPc, events,
                   stopReq, uiPc, final_save, call>>

\* lines 145-150: the read succeeds; or it raises EnvironmentError, and the
\* assignment of line 150 follows exit_with_error and is never reached; or
\* lines 146-147 raise another exception (readlines a UnicodeDecodeError,
\* Todos an error of its own), which line 148 does not catch: main ends with
\* the traceback and exit_with_error writes nothing
OpenTodo ==
    /\ pc = "open"
    /\ \/ /\ fs[todotxt_file_path.val] = "file"
          /\ todos' = disk
          /\ pc' = "observe"
          /\ UNCHANGED stderr
       \/ /\ exit_with_error("unable to open", "todo.txt")
          /\ UNCHANGED todos
       \/ /\ pc' = "crashed"
          /\ UNCHANGED <<stderr, todos>>
    /\ UNCHANGED <<arguments, cfg, fs, disk, enable_autosave, todotxt_file,
                   donetxt_file, todotxt_file_path, donetxt_file_path, view,
                   obsPc, events, stopReq, uiPc, final_save, call>>

\* lines 152-157: the observer thread starts, watching the todo file's
\* directory for the todo file's name
StartObserver ==
    /\ pc = "observe"
    /\ obsPc' = "idle"
    /\ pc' = "window"
    /\ UNCHANGED <<arguments, cfg, fs, disk, stderr, enable_autosave,
                   todotxt_file, donetxt_file, todotxt_file_path,
                   donetxt_file_path, todos, view, events, stopReq, uiPc,
                   final_save, call>>

----------------------------------------------------------------------------
(* main, from the construction of the view to the exit *)

\* lines 159-165: the global view is bound
MakeView ==
    /\ pc = "window"
    /\ view' = TRUE
    /\ pc' = "view"
    /\ UNCHANGED <<arguments, cfg, fs, disk, stderr, enable_autosave,
                   todotxt_file, donetxt_file, todotxt_file_path,
                   donetxt_file_path, todos, obsPc, events, stopReq, uiPc,
                   final_save, call>>

\* line 167: view.main starts the UI event loop
StartUi ==
    /\ pc = "view"
    /\ pc' = "ui"
    /\ UNCHANGED <<arguments, cfg, fs, disk, stderr, enable_autosave,
                   todotxt_file, donetxt_file, todotxt_file_path,
                   donetxt_file_path, todos, view, obsPc, events, stopReq,
                   uiPc, final_save, call>>

\* the observer's emitter queues a modified-event for a write to the todo
\* file while the observer runs
Notified ==
    IF obsPc \notin {"unstarted", "dead"} /\ ~stopReq /\ events < MaxEvents
    THEN events + 1
    ELSE events

\* the UI loop takes an edit command: it is validated against the list
EditBegin ==
    /\ pc = "ui" /\ uiPc = "idle"
    /\ Count(todos, "u") < MaxEdits
    /\ uiPc' = "apply"
    /\ UNCHANGED <<arguments, cfg, fs, disk, pc, stderr, enable_autosave,
                   todotxt_file, donetxt_file, todotxt_file_path,
                   donetxt_file_path, todos, view, obsPc, events, stopReq,
                   final_save, call>>

\* the edit command mutates the task list
EditMutate ==
    /\ pc = "ui" /\ uiPc = "apply"
    /\ todos' = Append(todos, "u")
    /\ uiPc' = "record"
    /\ UNCHANGED <<arguments, cfg, fs, disk, pc, stderr, enable_autosave,
                   todotxt_file, donetxt_file, todotxt_file_path,
                   donetxt_file_path, view, obsPc, events, stopReq,
                   final_save, call>>

\* the edit command completes; with todos.autosave (line 152) the list is saved
EditEnd ==
    /\ pc = "ui" /\ uiPc = "record"
    /\ uiPc' = "idle"
    /\ \/ /\ Truthy(enable_autosave)
          /\ disk' = todos
          /\ events' = Notified
       \/ /\ ~Truthy(enable_autosave)
          /\ UNCHANGED <<disk, events>>
    /\ UNCHANGED <<arguments, cfg, fs, pc, stderr, enable_autosave,
                   todotxt_file, donetxt_file, todotxt_file_path,
                   donetxt_file_path, todos, view, obsPc, stopReq,
                   final_save, call>>

\* line 167 returns: the UI is shut down
UiQuit ==
    /\ pc = "ui" /\ uiPc = "idle"
    /\ pc' = "shutdown"
    /\ UNCHANGED <<arguments, cfg, fs, disk, stderr, enable_autosave,
                   todotxt_file, donetxt_file, todotxt_file_path,
                   donetxt_file_path, todos, view, obsPc, events, stopReq,
                   uiPc, final_save, call>>

\* line 175: observer.stop()
StopObserver ==
    /\ pc = "shutdown"
    /\ stopReq' = TRUE
    /\ pc' = "join"
    /\ UNCHANGED <<arguments, cfg, fs, disk, stderr, enable_autosave,
                   todotxt_file, donetxt_file, todotxt_file_path,
                   donetxt_file_path, todos, view, obsPc, events, uiPc,
                   final_save, call>>

\* line 176: observer.join() returns once the observer thread has ended
JoinObserver ==
    /\ pc = "join"
    /\ obsPc = "dead"
    /\ pc' = "save"
    /\ UNCHANGED <<arguments, cfg, fs, disk, stderr, enable_autosave,
                   todotxt_file, donetxt_file, todotxt_file_path,
                   donetxt_file_path, todos, view, obsPc, events, stopReq,
                   uiPc, final_save, call>>

\* main without line 180
FinalSaveSkipped ==
    /\ pc = "save"
    /\ pc' = "exit"
    /\ UNCHANGED <<arguments, cfg, fs, disk, stderr, enable_autosave,
                   todotxt_file, donetxt_file, todotxt_file_path,
                   donetxt_file_path, todos, view, obsPc, events, stopReq,
                   uiPc, final_save, call>>

\* line 180: view.todos.save() writes the list, or raises and main ends
\* with the traceback
FinalSave ==
    /\ pc = "save"
    /\ \/ /\ disk' = todos
          /\ final_save' = "done"
          /\ pc' = "exit"
       \/ /\ final_save' = "failed"
          /\ pc' = "crashed"
          /\ UNCHANGED disk
    /\ UNCHANGED <<arguments, cfg, fs, stderr, enable_autosave,
                   todotxt_file, donetxt_file, todotxt_file_path,
                   donetxt_file_path, todos, view, obsPc, events, stopReq,
                   uiPc, call>>

\* line 182: exit(0)
Exit ==
    /\ pc = "exit"
    /\ pc' = "exit0"
    /\ UNCHANGED <<arguments, cfg, fs, disk, stderr, enable_autosave,
                   todotxt_file, donetxt_file, todotxt_file_path,
                   donetxt_file_path, todos, view, obsPc, events, stopReq,
                   uiPc, final_save, call>>

----------------------------------------------------------------------------
(* The observer thread: AutoLoad.on_modified *)

\* line 49: the observer thread takes a queued event and calls on_modified;
\* line 50 reads the global view, a NameError while it is unbound.  The
\* exception ends the handler; whether the observer thread survives it
\* depends on the watchdog version.
OnModified ==
    /\ obsPc = "idle" /\ ~stopReq
    /\ events > 0
    /\ events' = events - 1
    /\ \/ /\ view
          /\ obsPc' = "reload"
       \/ /\ ~view
          /\ obsPc' \in {"idle", "dead"}
    /\ UNCHANGED <<arguments, cfg, fs, disk, pc, stderr, enable_autosave,
                   todotxt_file, donetxt_file, todotxt_file_path,
                   donetxt_file_path, todos, view, stopReq, uiPc,
                   final_save, call>>

\* line 50: view.reload_todos_from_file(), on the observer thread: the task
\* list is replaced by the file's content
Reload ==
    /\ obsPc = "reload"
    /\ todos' = disk
    /\ obsPc' = "draw"
    /\ UNCHANGED <<arguments, cfg, fs, disk, pc, stderr, enable_autosave,
                   todotxt_file, donetxt_file, todotxt_file_path,
                   donetxt_file_path, view, events, stopReq, uiPc,
                   final_save, call>>

\* line 51: view.loop.draw_screen(); outside the running UI loop the screen
\* may not be there, and the call may raise
DrawScreen ==
    /\ obsPc = "draw"
    /\ \/ obsPc' = "idle"
       \/ /\ pc # "ui"
          /\ obsPc' = "dead"
    /\ UNCHANGED <<arguments, cfg, fs, disk, pc, stderr, enable_autosave,
                   todotxt_file, donetxt_file, todotxt_file_path,
                   donetxt_file_path, todos, view, events, stopReq, uiPc,
                   final_save, call>>

\* the observer thread ends once observer.stop() was called and no handler runs
ObserverExit ==
    /\ obsPc = "idle" /\ stopReq
    /\ obsPc' = "dead"
    /\ UNCHANGED <<arguments, cfg, fs, disk, pc, stderr, enable_autosave,
                   todotxt_file, donetxt_file, todotxt_file_path,
                   donetxt_file_path, todos, view, events, stopReq, uiPc,
                   final_save, call>>

\* another program writes the todo file while the process holds the list
\* (a write before the list is read only changes what is read)
ExternalEdit ==
    /\ pc \in {"observe", "window", "view", "ui", "shutdown", "join", "save", "exit"}
    /\ Count(disk, "x") < MaxExternal
    /\ disk' = Append(disk, "x")
    /\ events' = Notified
    /\ UNCHANGED <<arguments, cfg, fs, pc, stderr, enable_autosave,
                   todotxt_file, donetxt_file, todotxt_file_path,
                   donetxt_file_path, todos, view, obsPc, stopReq, uiPc,
                   final_save, call>>

----------------------------------------------------------------------------
(* One call of get_boolean_config_option *)

CallBoolean ==
    /\ pc = "call" /\ ~call.done
    /\ call' = [call EXCEPT
                  !.result = get_boolean_config_option(cfg, "settings",
                                                       call.option, call.default),
                  !.done = TRUE]
    /\ UNCHANGED <<arguments, cfg, fs, disk, pc, stderr, enable_autosave,
                   todotxt_file, donetxt_file, todotxt_file_path,
                   donetxt_file_path, todos, view, obsPc, events, stopReq,
                   uiPc, final_save>>

----------------------------------------------------------------------------
(* Initial states *)

\* marks an option the config file does not hold
Absent == [type |-> "absent", val |-> <<>>]

\* the [settings] section with the given values of file, archive, auto-save
Settings(f, a, s) ==
    LET pick(k) == CASE k = "file" -> f [] k = "archive" -> a [] OTHER -> s
    IN  [k \in {o \in {"file", "archive", "auto-save"} : pick(o) # Absent} |-> pick(k)]

Config(f, a, s) ==
    [section \in {"keys", "settings"} |->
        IF section = "settings" THEN Settings(f, a, s) ELSE <<>>]

Arguments(t, d, b) ==
    [k \in {"TODOFILE", "DONEFILE", "--show-default-bindings"} |->
        CASE k = "TODOFILE" -> t [] k = "DONEFILE" -> d [] OTHER -> b]

\* the state main() starts in, but for the command line and the config file
Start ==
    /\ fs = InitFs
    /\ disk = <<>>
    /\ stderr = NoMessage
    /\ enable_autosave = PyFalse
    /\ todotxt_file = None
    /\ donetxt_file = None
    /\ todotxt_file_path = None
    /\ donetxt_file_path = None
    /\ todos = NoTodos
    /\ view = FALSE
    /\ obsPc = "unstarted"
    /\ events = 0
    /\ stopReq = FALSE
    /\ uiPc = "idle"
    /\ final_save = "none"

PathValues == {None, Str(<<>>), Str(NameT), Str(NameD), Str(NameN), Str(NameX)}

\* 'true' in every spelling of upper and lower case
TrueSpellings ==
    {<<a, b, c, d>> : a \in {"t", "T"}, b \in {"r", "R"},
                      c \in {"u", "U"}, d \in {"e", "E"}}

BooleanValues ==
    {None} \cup {Str(s) : s \in TrueSpellings \cup
                    {<<"1">>, <<"0">>, <<>>, <<"1", "1">>, <<"y", "e", "s">>,
                     <<"Y", "E", "S">>, <<"n", "o">>, <<"t", "r", "u">>,
                     <<"f", "a", "l", "s", "e">>, <<"F", "a", "l", "s", "e">>,
                     <<"N", "o", "n", "e">>, <<"t", "r", "u", "e", "1">>}}

\* main() starts, with every command line and config file of the model
Init ==
    /\ Start
    /\ pc = "start"
    /\ call = NoCall
    /\ arguments \in {Arguments(t, d, b) : t \in PathValues, d \in PathValues,
                                           b \in {PyTrue, PyFalse}}
    /\ cfg \in {Config(f, a, s) :
                    f \in {Absent} \cup (PathValues \ {Str(NameX)}),
                    a \in {Absent} \cup (PathValues \ {Str(NameX)}),
                    s \in {Absent, Str(<<"T", "r", "u", "e">>), Str(<<"0">>)}}

\* the calls of get_boolean_config_option
InitBoolean ==
    /\ Start
    /\ pc = "call"
    /\ arguments = Arguments(None, None, PyFalse)
    /\ cfg \in {Config(Absent, Absent, s) : s \in {Absent} \cup BooleanValues}
    /\ call \in {[option |-> o, default |-> d, result |-> None, done |-> FALSE] :
                    o \in {"auto-save", "show-toolbar"}, d \in {PyTrue, PyFalse}}

----------------------------------------------------------------------------
(* Specifications *)

Next ==
    \/ ParseConfig
    \/ SelectFiles
    \/ ResolveTodo
    \/ ResolveDone
    \/ OpenTodo
    \/ StartObserver
    \/ MakeView
    \/ StartUi
    \/ EditBegin
    \/ EditMutate
    \/ EditEnd
    \/ UiQuit
    \/ StopObserver
    \/ JoinObserver
    \/ FinalSave
    \/ Exit
    \/ OnModified
    \/ Reload
    \/ DrawScreen
    \/ ObserverExit
    \/ ExternalEdit

Spec == Init /\ [][Next]_vars

SpecBoolean == InitBoolean /\ [][CallBoolean]_vars

----------------------------------------------------------------------------
(* Properties *)

IsPrefix(a, b) == Len(a) <= Len(b) /\ SubSeq(b, 1, Len(a)) = a

\* the Todos list, the observer or the view has been made
CoreConstructed == todos # NoTodos \/ obsPc # "unstarted" \/ view

\* the value is the path of a file that exists
IsFile(v) == v.type = "str" /\ v.val \in DOMAIN fs /\ fs[v.val] = "file"

\* the name is one get_real_path must refuse, as the file system stood at the
\* start: a directory, or a missing file in a missing directory
Refused(name) ==
    /\ name.type = "str"
    /\ LET p == RealPath(name.val)
       IN  \/ InitFs[p] = "dir"
           \/ InitFs[p] = "missing" /\ InitFs[Dirname(p)] # "dir"

\* C1: main reaches the exit(0) of line 182 only after view.todos.save() has
\* returned, and a final save that fails ends main with its exception instead
\* (the exit(0) of line 108, pc "exit0_bindings", ends a run that never
\* started the UI loop)
C1_FinalSaveBeforeExit ==
    /\ pc \in {"exit", "exit0"} => final_save = "done"
    /\ final_save = "failed" => pc = "crashed"

C1_Witness == pc = "exit0" /\ final_save = "done" /\ Count(todos, "u") > 0

\* C2: every change of the task list is made by the main (UI loop) thread:
\* no step of the observer thread changes it
C2_OnlyUiThreadMutates == [][todos' # todos => obsPc' = obsPc]_vars

\* C3: while an edit command is in progress the reload neither starts nor
\* reads or replaces the task list
C3_ReloadDeferredDuringEdit ==
    [][(obsPc' # obsPc /\ (obsPc' = "reload" \/ obsPc = "reload")) => uiPc = "idle"]_vars

\* C4: the save of the exit never writes the list while a reload signal is
\* still queued for an external edit the list has not loaded
C4_ReloadBeforeSave ==
    [][(pc = "save" /\ pc' = "exit") => ~(events > 0 /\ ~IsPrefix(disk, todos))]_vars

\* C5: when the read of the todo file fails at startup the process goes on,
\* with an empty task list
C5_LoadFailureFallsBack ==
    stderr.error = "unable to open" => pc \notin {"exit1", "crashed"} /\ todos = <<>>

\* C6: the core is made only once the todo path and, if one is configured,
\* the archive path are files that exist; a path that is a directory or lies
\* in a missing directory ends the process with an error before the core is made
C6_CoreAfterValidPaths ==
    /\ CoreConstructed =>
          /\ IsFile(todotxt_file_path)
          /\ donetxt_file # None => IsFile(donetxt_file_path)
          /\ donetxt_file = None => donetxt_file_path = None
    /\ (pc \notin {"start", "select", "resolve_todo", "resolve_done"}
          /\ (Refused(todotxt_file) \/ Refused(donetxt_file)))
       => pc \in {"exit1", "crashed"} /\ ~CoreConstructed
    /\ (pc \notin {"start", "select", "resolve_todo"} /\ Refused(todotxt_file))
       => pc = "exit1" /\ stderr.what = "todo.txt"

C6_Witness ==
    /\ pc = "window" /\ obsPc = "idle"
    /\ InitFs[todotxt_file_path.val] = "missing"
    /\ IsFile(todotxt_file_path)
    /\ donetxt_file # None /\ IsFile(donetxt_file_path)

\* C7, as claimed: an argument given on the command line (not None) is the
\* path used, otherwise the config's value; no todo file ends the process
\* with an error, no archive file leaves the archive path None
C7_CommandLineFirst ==
    pc \notin {"start", "select", "exit0_bindings"} =>
        LET settings == cfg["settings"]
            argT == arguments["TODOFILE"]
            argD == arguments["DONEFILE"]
        IN  /\ todotxt_file = IF argT # None THEN argT ELSE Get(settings, "file", None)
            /\ todotxt_file = None => pc = "exit1"
            /\ todotxt_file # None =>
                  donetxt_file = IF argD # None THEN argD
                                 ELSE Get(settings, "archive", None)
            /\ (pc \in {"open", "observe", "window", "view", "ui"}
                  /\ argD = None /\ Get(settings, "archive", None) = None)
               => donetxt_file_path = None

\* C7, amended: a non-empty argument is the path used; an argument that is
\* absent or '' gives way to the config's value when the option is present,
\* and is itself the value used (None or '') when the option is absent.  A
\* todo file of None ends the process with an error, an archive of None
\* leaves the archive path None, and a path of '' is refused as a directory.
C7_NonEmptyCommandLineFirst ==
    pc \notin {"start", "select", "exit0_bindings"} =>
        LET settings == cfg["settings"]
            argT == arguments["TODOFILE"]
            argD == arguments["DONEFILE"]
        IN  /\ Truthy(argT) => todotxt_file = argT
            /\ (~Truthy(argT) /\ "file" \in DOMAIN settings)
                  => todotxt_file = settings["file"]
            /\ (~Truthy(argT) /\ "file" \notin DOMAIN settings)
                  => todotxt_file = argT
            /\ todotxt_file = None
                  => pc = "exit1" /\ stderr.error = "no todo file specified"
            /\ todotxt_file # None =>
                  /\ Truthy(argD) => donetxt_file = argD
                  /\ (~Truthy(argD) /\ "archive" \in DOMAIN settings)
                        => donetxt_file = settings["archive"]
                  /\ (~Truthy(argD) /\ "archive" \notin DOMAIN settings)
                        => donetxt_file = argD
            /\ (pc \in {"open", "observe", "window", "view", "ui"} /\ donetxt_file = None)
                  => donetxt_file_path = None
            /\ (pc # "resolve_todo" /\ todotxt_file = Str(<<>>))
                  => pc = "exit1" /\ stderr.error = "is a directory"
            /\ (pc \notin {"resolve_todo", "resolve_done"} /\ donetxt_file = Str(<<>>))
                  => pc \in {"exit1", "crashed"}

C7_Witness ==
    /\ pc = "window"
    /\ arguments["TODOFILE"] = Str(<<>>)
    /\ "file" \in DOMAIN cfg["settings"]
    /\ todotxt_file = cfg["settings"]["file"]
    /\ Truthy(arguments["DONEFILE"])
    /\ "archive" \in DOMAIN cfg["settings"]
    /\ Truthy(cfg["settings"]["archive"])
    /\ cfg["settings"]["archive"] # arguments["DONEFILE"]
    /\ donetxt_file = arguments["DONEFILE"]

\* C8: get_boolean_config_option returns the default for an absent option,
\* and for a present one True exactly when its lower-cased text is 'true' or '1'
C8_BooleanOption ==
    call.done =>
        LET settings == cfg["settings"]
        IN  call.result =
              IF call.option \notin DOMAIN settings
              THEN call.default
              ELSE IF Lower(PyStr(settings[call.option]))
                        \in {<<"t", "r", "u", "e">>, <<"1">>}
                   THEN PyTrue
                   ELSE PyFalse

\* C9: once the final save can start the observer thread has ended, the
\* final save's write queues no event, and from the return of the UI loop to
\* the final save the task list stays as it was
C9_FinalSaveWritesListAtReturn ==
    [][/\ pc' \in {"save", "exit", "exit0"} => obsPc' = "dead"
       /\ (pc = "save" /\ pc' # pc) => events' = events
       /\ pc \in {"shutdown", "join", "save"} => todos' = todos]_vars

\* C10: on_modified is entered, and runs, only while the view is bound and
\* the UI loop is running
C10_HandlerOnlyWhileUiRuns ==
    [][/\ events' < events => (view /\ pc = "ui")
       /\ obsPc' \in {"reload", "draw"} => pc' = "ui"]_vars

====
